---- MODULE Spec2Model ----
(***************************************************************************)
(* fix-curseforge.py: unzip the modpack archive into a temporary folder,   *)
(* load manifest.json, drop the denylisted projects from its `files`,      *)
(* write the manifest back, re-zip the folder beside the archive and move  *)
(* the new zip over the original.                                          *)
(*                                                                         *)
(* The model follows one invocation of main() step by step.  Every step    *)
(* that touches the filesystem either succeeds or raises; the choice is    *)
(* the environment's.  The with-block of tempfile.TemporaryDirectory       *)
(* removes the temporary folder whenever control leaves it, which is part  *)
(* of every step that ends the run.  The tool can be invoked again after   *)
(* it has exited; the outcome of the previous invocation is remembered so  *)
(* that two runs can be compared.                                          *)
(***************************************************************************)
EXTENDS Integers, Sequences, FiniteSets, TLC

\* ------------------------------------------------------------------ bounds
\* Longest `files` sequence of the manifests modify_manifest is called on.
MaxFiles == 4
\* Entries of `files` carry a fileID in 1..MaxFileID beside their projectID.
MaxFileID == 1
\* Longest `files` sequence of the manifest inside an archive main is run on.
MaxArchiveFiles == 2

\* --------------------------------------------------------------- constants
DEFAULT_ZIP == "build/curseforge/GameNight-3.0.0.zip"
PROJECTS_TO_REMOVE == <<890127, 889079, 406463>>
BACKUP_SUFFIX == ".bak"

\* A projectID that PROJECTS_TO_REMOVE does not name.
KeptProject == PROJECTS_TO_REMOVE[1] + 1

Range(s) == {s[i] : i \in 1..Len(s)}

\* ------------------------------------------------------------- the manifest
\* projectIDs the entries of the modelled manifests draw from: two that the
\* denylist names and one it does not.
ProjectIDs == {PROJECTS_TO_REMOVE[1], PROJECTS_TO_REMOVE[3], KeptProject}

\* An entry of `files` is a JSON object that may carry a projectID.
EntriesWith(fileIDs) ==
    {[projectID |-> p, fileID |-> f] : p \in ProjectIDs, f \in fileIDs}
        \cup {[fileID |-> f] : f \in fileIDs}

Entries == EntriesWith(1..MaxFileID)

RECURSIVE SeqsUpTo(_, _)
SeqsUpTo(S, n) ==
    IF n = 0 THEN {<<>>}
    ELSE LET shorter == SeqsUpTo(S, n - 1)
         IN  shorter \cup {Append(s, e) : s \in {t \in shorter : Len(t) = n - 1}, e \in S}

\* Manifests: with a `files` sequence, or without the `files` field; `name`
\* stands for the fields the tool does not look at.
DocsOver(E, n) ==
    {[files |-> fs, name |-> "GameNight"] : fs \in SeqsUpTo(E, n)}
        \cup {[name |-> "GameNight"]}

\* The manifests modify_manifest is called on, taken alone.
Docs == DocsOver(Entries, MaxFiles)

\* The manifests inside the archives main is run on.
ArchiveDocs == DocsOver(EntriesWith({1}), MaxArchiveFiles)

\* A value json.dumps cannot encode (a set, an object, ...).
NonJson == "<object>"

\* The value of `manifest` before json.load has run.
NoDoc == [unbound |-> TRUE]

\* --------------------------------------------------------- modify_manifest
\* file.get("projectID") in PROJECTS_TO_REMOVE: get yields None for an entry
\* without the field, and None is in no list of integers.
InProjectsToRemove(file) ==
    /\ "projectID" \in DOMAIN file
    /\ file.projectID \in Range(PROJECTS_TO_REMOVE)

\* A slip: list.pop() in place of list.remove(x).
ListPop(list, x) == SubSeq(list, 1, Len(list) - 1)

\* list.remove(x): delete the first item equal to x.
ListRemove(list, x) ==
    LET k == CHOOSE i \in 1..Len(list) :
                 /\ list[i] = x
                 /\ \A j \in 1..(i - 1) : list[j] # x
    IN  SubSeq(list, 1, k - 1) \o SubSeq(list, k + 1, Len(list))

\* The for loop of modify_manifest over the live list: the list iterator keeps
\* an index, yields list[index] while index < len(list) and then advances the
\* index by one, whatever the body has done to the list.  `i` is that index,
\* counted from 1.
RECURSIVE ForLoop(_, _)
ForLoop(list, i) ==
    IF i > Len(list) THEN list
    ELSE IF InProjectsToRemove(list[i])
         THEN ForLoop(ListRemove(list, list[i]), i + 1)
         ELSE ForLoop(list, i + 1)

\* The same loop, with every entry of the list named by its place in the list
\* the loop started on: `list` holds places of `start`, the entry at place p is
\* start[p].  list.remove compares entries, not places.
RECURSIVE ForLoopPlaces(_, _, _)
ForLoopPlaces(start, list, i) ==
    IF i > Len(list) THEN list
    ELSE IF InProjectsToRemove(start[list[i]])
         THEN LET k == CHOOSE j \in 1..Len(list) :
                           /\ start[list[j]] = start[list[i]]
                           /\ \A h \in 1..(j - 1) : start[list[h]] # start[list[i]]
              IN  ForLoopPlaces(start,
                      SubSeq(list, 1, k - 1) \o SubSeq(list, k + 1, Len(list)), i + 1)
         ELSE ForLoopPlaces(start, list, i + 1)

\* The places of the entries modify_manifest leaves in `files`, in their order.
PlacesLeft(files) == ForLoopPlaces(files, [p \in 1..Len(files) |-> p], 1)

\* A call of a transform yields: whether it raised, the state of the argument
\* object after the call (`arg`) and the object it returned (`ret`).
CallResult(raised, arg, ret) == [raised |-> raised, arg |-> arg, ret |-> ret]

\* A slip: a new dict is built from `files` alone.
modify_manifest_files_only(manifest) ==
    IF "files" \notin DOMAIN manifest
    THEN CallResult(TRUE, manifest, NoDoc)
    ELSE LET out == [files |-> ForLoop(manifest.files, 1)]
         IN  CallResult(FALSE, out, out)

\* modify_manifest as shipped: manifest["files"] raises KeyError when the field
\* is missing; otherwise the list is filtered in place and the same object is
\* returned.
modify_manifest(manifest) ==
    IF "files" \notin DOMAIN manifest
    THEN CallResult(TRUE, manifest, NoDoc)
    ELSE LET out == [manifest EXCEPT !.files = ForLoop(manifest.files, 1)]
         IN  CallResult(FALSE, out, out)

\* The transforms that may stand at modify_manifest (the docstring invites the
\* user to edit the function; its contract is dict -> dict):
\*   builtin                the function as shipped
\*   pure_filter            returns a new, filtered dict and leaves its argument alone
\*   returns_unserializable returns a new dict holding a non-JSON value
\*   mutates_unserializable stores a non-JSON value in its argument and returns it
\*   raises                 raises an exception
Transforms ==
    {"builtin", "pure_filter", "returns_unserializable", "mutates_unserializable", "raises"}

\* The modules --modifier may name (docstring, lines 6-8): each supplies its
\* own modify_manifest.
\*   keep_all               returns its argument as it is
Modifiers == {"keep_all"}

WithExtra(manifest) ==
    [k \in DOMAIN manifest \cup {"extra"} |->
        IF k = "extra" THEN NonJson ELSE manifest[k]]

CallTransform(t, manifest) ==
    CASE t = "builtin" -> modify_manifest(manifest)
      [] t = "pure_filter" ->
            IF "files" \notin DOMAIN manifest
            THEN CallResult(TRUE, manifest, NoDoc)
            ELSE CallResult(FALSE, manifest,
                     [manifest EXCEPT !.files =
                         SelectSeq(manifest.files, LAMBDA f : ~InProjectsToRemove(f))])
      [] t = "returns_unserializable" -> CallResult(FALSE, manifest, WithExtra(manifest))
      [] t = "mutates_unserializable" ->
            CallResult(FALSE, WithExtra(manifest), WithExtra(manifest))
      [] t = "raises" -> CallResult(TRUE, manifest, NoDoc)
      [] t = "keep_all" -> CallResult(FALSE, manifest, manifest)

\* ------------------------------------------------------ json.dumps, json.load
RECURSIVE Join(_, _)
Join(strs, sep) ==
    IF Len(strs) = 0 THEN ""
    ELSE IF Len(strs) = 1 THEN strs[1]
    ELSE strs[1] \o sep \o Join(Tail(strs), sep)

DumpEntry(e) ==
    "{"
    \o (IF "projectID" \in DOMAIN e
        THEN "\"projectID\": " \o ToString(e.projectID) \o ", " ELSE "")
    \o "\"fileID\": " \o ToString(e.fileID)
    \o "}"

\* json.dumps raises TypeError on a value that is not a JSON type.
Serializable(doc) == \A k \in DOMAIN doc : doc[k] # NonJson

\* json.dumps(manifest, indent=2, ensure_ascii=False) of a serializable
\* document: the fields one per line, indented by two.
Dumps(doc) ==
    LET fields ==
            (IF "files" \in DOMAIN doc
             THEN <<"  \"files\": ["
                    \o Join([i \in 1..Len(doc.files) |-> DumpEntry(doc.files[i])], ", ")
                    \o "]">>
             ELSE <<>>)
            \o (IF "name" \in DOMAIN doc
                THEN <<"  \"name\": \"" \o doc.name \o "\"">> ELSE <<>>)
    IN  "{\n" \o Join(fields, ",\n") \o "\n}"

\* The text main writes to manifest.json: json_str and a newline.
ManifestText(doc) == Dumps(doc) \o "\n"

\* Bytes that are no JSON document.
NotJson == "{\"files\": [oops"

\* json.load: the document the text is the JSON of, or JSONDecodeError when
\* it is the JSON of none.
JsonLoad(text) ==
    LET docs == {d \in ArchiveDocs : ManifestText(d) = text}
    IN  IF docs # {}
        THEN [ok |-> TRUE, doc |-> CHOOSE d \in docs : TRUE]
        ELSE [ok |-> FALSE, doc |-> NoDoc]

\* -------------------------------------------------------------- filesystem
zip_path == DEFAULT_ZIP
\* A slip: the new zip is built at the path of the original.
new_zip_in_place == zip_path
\* zip_path.with_suffix(zip_path.suffix + ".new")
new_zip_path == zip_path \o ".new"
bak_path == zip_path \o BACKUP_SUFFIX
FsPaths == {zip_path, new_zip_path, bak_path}

\* The entries of an archive: name (a relative POSIX path) -> content.  The
\* files of a folder: path below the folder (a sequence of components) ->
\* content.
EmptyTree == [p \in {} |-> ""]
ManifestName == "manifest.json"
OtherName == "overrides/config/mod.cfg"
OtherBytes == "cfg-bytes"

\* manifest_path, below tmpdir_path.
ManifestPath == <<ManifestName>>
OtherPath == <<"overrides", "config", "mod.cfg">>

\* PurePath.as_posix(): the components joined by "/".
AsPosix(path) == Join(path, "/")

\* The path an entry name stands for: its components between the "/".
SplitName(name) == CHOOSE p \in {ManifestPath, OtherPath} : AsPosix(p) = name

Absent == [kind |-> "absent", entries |-> EmptyTree]
\* A file that is no zip archive.
Garbage == [kind |-> "garbage", entries |-> EmptyTree]
\* What a zipfile.ZipFile(..., "w") that raised midway leaves behind.
Partial == [kind |-> "partial", entries |-> EmptyTree]
ZipOf(tree) == [kind |-> "zip", entries |-> tree]

NoDir == [exists |-> FALSE, files |-> EmptyTree]
Dir(tree) == [exists |-> TRUE, files |-> tree]

WriteFile(tree, path, content) ==
    [p \in DOMAIN tree \cup {path} |-> IF p = path THEN content ELSE tree[p]]

\* The archives the tool may be pointed at: some file beside a manifest.json
\* that is a document, is no JSON, or is missing.
Archives ==
    LET other == WriteFile(EmptyTree, OtherName, OtherBytes)
    IN  {ZipOf(other)}
            \cup {ZipOf(WriteFile(other, ManifestName, NotJson))}
            \cup {ZipOf(WriteFile(other, ManifestName, ManifestText(d))) : d \in ArchiveDocs}

\* zf.extractall(tmpdir): every entry becomes a file at the path its name
\* spells.
extractall(entries) ==
    [p \in {SplitName(n) : n \in DOMAIN entries} |-> entries[AsPosix(p)]]

\* The path of the temporary folder.
TmpDirPath == <<"tmp", "fix-curseforge-">>

\* os.walk(src_dir): for the folder and every folder below it, its path
\* (`root`) and the names of the files in it (`files`).
os_walk(top, tree) ==
    LET dirs == UNION {{SubSeq(p, 1, k) : k \in 0..(Len(p) - 1)} : p \in DOMAIN tree}
    IN  {[root |-> top \o d,
          files |-> {p[Len(p)] : p \in {q \in DOMAIN tree :
                                           /\ Len(q) = Len(d) + 1
                                           /\ SubSeq(q, 1, Len(d)) = d}}] : d \in dirs}

\* fpath.relative_to(src_dir)
relative_to(fpath, top) == SubSeq(fpath, Len(top) + 1, Len(fpath))

\* The archive a walk gives: for every folder of the walk and every file in
\* it, an entry named arcname.as_posix() with the content of fpath.
ZipOfWalk(walk, top, tree) ==
    LET fpaths == UNION {{w.root \o <<file>> : file \in w.files} : w \in walk}
        arcname(fpath) == AsPosix(relative_to(fpath, top))
    IN  ZipOf([n \in {arcname(fpath) : fpath \in fpaths} |->
                  tree[relative_to(CHOOSE fpath \in fpaths : arcname(fpath) = n, top)]])

\* A slip: os.listdir in place of os.walk; the folders below src_dir are not
\* entered.
rezip_top_folder_only(src_dir) ==
    ZipOfWalk({w \in os_walk(TmpDirPath, src_dir.files) : w.root = TmpDirPath},
              TmpDirPath, src_dir.files)

\* rezip_directory: one entry per file of the os.walk of src_dir, named by its
\* POSIX path relative to src_dir.
rezip_directory(src_dir) ==
    ZipOfWalk(os_walk(TmpDirPath, src_dir.files), TmpDirPath, src_dir.files)

\* A slip: tempfile.mkdtemp() without a with-block; nothing removes the folder.
CleanupNever(dir) == dir

\* TemporaryDirectory.__exit__: the folder is removed with all it holds.
Cleanup(dir) == NoDir

\* ------------------------------------------------------------------- state
VARIABLES
    pc,         \* where main() stands
    fs,         \* the files at zip_path, new_zip_path and bak_path
    tmpdir,     \* the TemporaryDirectory of the run
    transform,  \* the function standing at modify_manifest
    modifier,   \* the module named by --modifier on the command line, if any
    loaded,     \* the document as json.load returned it
    manifest,   \* main's variable `manifest`
    returned,   \* the value of the call modify_manifest(manifest) at line 75
    json_str,   \* main's variable `json_str`
    exitcode,   \* the exit status of the process, once it has ended
    cause,      \* what ended the run
    orig,       \* fs as it was when the run started
    written,    \* the places the run has written to
    prev        \* cause and exit status of the previous run

vars ==
    <<pc, fs, tmpdir, transform, modifier, loaded, manifest, returned, json_str,
      exitcode, cause, orig, written, prev>>

\* The place name of the temporary folder in `written`.
TmpDirName == "fix-curseforge-"

Running == -1
NoRun == [cause |-> "none", exitcode |-> Running]

\* A slip: the status of the clause above copied to the manifest write clause.
SysExitWriteAsDumps ==
    [zip_not_found |-> 1, bad_zip |-> 3, read_manifest |-> 5, not_serializable |-> 8,
     save_manifest |-> 8, create_zip |-> 11, replace_zip |-> 12]
\* A slip: the status of the clause above copied to the serialization clause.
SysExitDumpsAsRead ==
    [zip_not_found |-> 1, bad_zip |-> 3, read_manifest |-> 5, not_serializable |-> 5,
     save_manifest |-> 9, create_zip |-> 11, replace_zip |-> 12]

\* The sys.exit status of each except clause of main.
SysExit ==
    [zip_not_found |-> 1, bad_zip |-> 3, read_manifest |-> 5, not_serializable |-> 8,
     save_manifest |-> 9, create_zip |-> 11, replace_zip |-> 12]
\* The interpreter's exit status for an exception no clause catches, and for
\* main returning.
UncaughtExit == 1
NormalExit == 0

\* The file systems a run may start from.
StartFs ==
    {[p \in FsPaths |-> IF p = zip_path THEN z ELSE IF p = new_zip_path THEN n ELSE Absent] :
        z \in Archives \cup {Absent, Garbage}, n \in {Absent, Garbage}}

\* The command lines a run may start from: no --modifier, or the shipped file
\* with --modifier naming a module.
CommandLines ==
    {[transform |-> t, modifier |-> "none"] : t \in Transforms}
        \cup {[transform |-> "builtin", modifier |-> m] : m \in Modifiers}

StartRun(at, f, c) ==
    /\ pc' = at
    /\ fs' = f
    /\ orig' = f
    /\ transform' = c.transform
    /\ modifier' = c.modifier
    /\ tmpdir' = NoDir
    /\ loaded' = NoDoc
    /\ manifest' = NoDoc
    /\ returned' = NoDoc
    /\ json_str' = ""
    /\ exitcode' = Running
    /\ cause' = "none"
    /\ written' = {}

Init ==
    /\ pc = "Start"
    /\ fs \in StartFs
    /\ orig = fs
    /\ \E c \in CommandLines : transform = c.transform /\ modifier = c.modifier
    /\ tmpdir = NoDir
    /\ loaded = NoDoc
    /\ manifest = NoDoc
    /\ returned = NoDoc
    /\ json_str = ""
    /\ exitcode = Running
    /\ cause = "none"
    /\ written = {}
    /\ prev = NoRun

\* The run ends with status `code`; leaving the with-block removes the
\* temporary folder.
Exit(to, code, why) ==
    /\ pc' = to
    /\ exitcode' = code
    /\ cause' = why
    /\ tmpdir' = Cleanup(tmpdir)

\* lines 51-54: the archive is missing.
ZipNotFound ==
    /\ pc = "Start"
    /\ fs[zip_path].kind = "absent"
    /\ Exit("Failed", SysExit.zip_not_found, "ArchiveNotFound")
    /\ UNCHANGED <<fs, transform, modifier, loaded, manifest, returned, json_str, orig, written, prev>>

\* A slip: the temporary folder is made without the test of lines 52-54.
MakeTempDirUnchecked ==
    /\ pc = "Start"
    /\ pc' = "Opened"
    /\ tmpdir' = Dir(EmptyTree)
    /\ written' = written \cup {TmpDirName}
    /\ UNCHANGED <<fs, transform, modifier, loaded, manifest, returned, json_str, exitcode, cause,
                   orig, prev>>

\* lines 51-59: the archive exists; the temporary folder is created.
MakeTempDir ==
    /\ pc = "Start"
    /\ fs[zip_path].kind # "absent"
    /\ pc' = "Opened"
    /\ tmpdir' = Dir(EmptyTree)
    /\ written' = written \cup {TmpDirName}
    /\ UNCHANGED <<fs, transform, modifier, loaded, manifest, returned, json_str, exitcode, cause, orig, prev>>

\* A slip: a file that is no archive is taken for an archive without entries.
ExtractAnything ==
    /\ pc = "Opened"
    /\ pc' = "Extracted"
    /\ tmpdir' = Dir(extractall(fs[zip_path].entries))
    /\ UNCHANGED <<fs, transform, modifier, loaded, manifest, returned, json_str, exitcode, cause,
                   orig, written, prev>>

\* lines 60-62: every entry of the archive is extracted.
Extract ==
    /\ pc = "Opened"
    /\ fs[zip_path].kind = "zip"
    /\ pc' = "Extracted"
    /\ tmpdir' = Dir(extractall(fs[zip_path].entries))
    /\ UNCHANGED <<fs, transform, modifier, loaded, manifest, returned, json_str, exitcode, cause, orig,
                   written, prev>>

\* lines 63-65: the file is no zip archive.
BadZipFile ==
    /\ pc = "Opened"
    /\ fs[zip_path].kind # "zip"
    /\ Exit("Failed", SysExit.bad_zip, "CorruptArchive")
    /\ UNCHANGED <<fs, transform, modifier, loaded, manifest, returned, json_str, orig, written, prev>>

\* lines 60-62: extractall raises something other than BadZipFile (the disk is
\* full); no clause catches it.
ExtractRaises ==
    /\ pc = "Opened"
    /\ fs[zip_path].kind = "zip"
    /\ Exit("Failed", UncaughtExit, "Uncaught")
    /\ UNCHANGED <<fs, transform, modifier, loaded, manifest, returned, json_str, orig, written, prev>>

\* lines 67-73: manifest.json is opened and parsed.
LoadManifest ==
    /\ pc = "Extracted"
    /\ \/ /\ ManifestPath \notin DOMAIN tmpdir.files
          /\ Exit("Failed", SysExit.read_manifest, "MissingManifest")
          /\ UNCHANGED <<loaded, manifest>>
       \/ /\ ManifestPath \in DOMAIN tmpdir.files
          /\ LET r == JsonLoad(tmpdir.files[ManifestPath])
             IN  \/ /\ ~r.ok
                    /\ Exit("Failed", SysExit.read_manifest, "InvalidManifest")
                    /\ UNCHANGED <<loaded, manifest>>
                 \/ /\ r.ok
                    /\ manifest' = r.doc
                    /\ loaded' = r.doc
                    /\ pc' = "Loaded"
                    /\ UNCHANGED <<tmpdir, exitcode, cause>>
    /\ UNCHANGED <<fs, transform, modifier, returned, json_str, orig, written, prev>>

\* line 75: modify_manifest(manifest); the value of the call is dropped, the
\* variable keeps naming the object that was passed.
Transform ==
    /\ pc = "Loaded"
    /\ LET r == CallTransform(transform, manifest)
       IN  \/ /\ r.raised
              /\ Exit("Failed", UncaughtExit, "Uncaught")
              /\ UNCHANGED <<manifest, returned>>
           \/ /\ ~r.raised
              /\ manifest' = r.arg
              /\ returned' = r.ret
              /\ pc' = "Transformed"
              /\ UNCHANGED <<tmpdir, exitcode, cause>>
    /\ UNCHANGED <<fs, transform, modifier, loaded, json_str, orig, written, prev>>

\* A slip: the failure of json.dumps is reported as a warning and the run goes
\* on with an empty document.
SerializeSwallows ==
    /\ pc = "Transformed"
    /\ json_str' = IF Serializable(manifest) THEN Dumps(manifest) ELSE "{}"
    /\ pc' = "Serialized"
    /\ UNCHANGED <<tmpdir, exitcode, cause>>
    /\ UNCHANGED <<fs, transform, modifier, loaded, manifest, returned, orig, written, prev>>

\* lines 78-82: json.dumps(manifest, ...).
Serialize ==
    /\ pc = "Transformed"
    /\ \/ /\ ~Serializable(manifest)
          /\ Exit("Failed", SysExit.not_serializable, "SerializationError")
          /\ UNCHANGED json_str
       \/ /\ Serializable(manifest)
          /\ json_str' = Dumps(manifest)
          /\ pc' = "Serialized"
          /\ UNCHANGED <<tmpdir, exitcode, cause>>
    /\ UNCHANGED <<fs, transform, modifier, loaded, manifest, returned, orig, written, prev>>

\* lines 85-91: manifest.json is overwritten with json_str and a newline.
WriteManifest ==
    /\ pc = "Serialized"
    /\ \/ /\ tmpdir' = Dir(WriteFile(tmpdir.files, ManifestPath, json_str \o "\n"))
          /\ written' = written \cup {ManifestName}
          /\ pc' = "Written"
          /\ UNCHANGED <<exitcode, cause>>
       \/ \E opened \in BOOLEAN :
             \* open() raised, or a write raised after open() had truncated the file
             /\ written' = IF opened THEN written \cup {ManifestName} ELSE written
             /\ Exit("Failed", SysExit.save_manifest, "ManifestWriteError")
    /\ UNCHANGED <<fs, transform, modifier, loaded, manifest, returned, json_str, orig, prev>>

\* A slip: the temporary folder is zipped before manifest.json is rewritten.
RezipBeforeWrite ==
    /\ pc = "Serialized"
    /\ fs' = [fs EXCEPT ![new_zip_path] = rezip_directory(tmpdir)]
    /\ written' = written \cup {new_zip_path}
    /\ pc' = "Repackaged"
    /\ UNCHANGED <<tmpdir, exitcode, cause>>
    /\ UNCHANGED <<transform, modifier, loaded, manifest, returned, json_str, orig, prev>>

\* lines 94-100: the temporary folder is zipped to new_zip_path.
Rezip ==
    /\ pc = "Written"
    /\ \/ /\ fs' = [fs EXCEPT ![new_zip_path] = rezip_directory(tmpdir)]
          /\ written' = written \cup {new_zip_path}
          /\ pc' = "Repackaged"
          /\ UNCHANGED <<tmpdir, exitcode, cause>>
       \/ \E opened \in BOOLEAN :
             \* ZipFile() raised, or zf.write raised after the file had been created
             /\ fs' = IF opened THEN [fs EXCEPT ![new_zip_path] = Partial] ELSE fs
             /\ written' = IF opened THEN written \cup {new_zip_path} ELSE written
             /\ Exit("Failed", SysExit.create_zip, "ArchiveBuildError")
    /\ UNCHANGED <<transform, modifier, loaded, manifest, returned, json_str, orig, prev>>

\* A slip: shutil.copy in place of os.replace; the new zip stays beside the
\* archive.
ReplaceByCopy ==
    /\ pc = "Repackaged"
    /\ \/ /\ fs' = [fs EXCEPT ![zip_path] = fs[new_zip_path]]
          /\ pc' = "Swapped"
          /\ UNCHANGED <<tmpdir, exitcode, cause>>
       \/ /\ Exit("Failed", SysExit.replace_zip, "SwapError")
          /\ UNCHANGED fs
    /\ UNCHANGED <<transform, modifier, loaded, manifest, returned, json_str, orig, written, prev>>

\* lines 102-108: os.replace renames new_zip_path to zip_path, or raises and
\* leaves both files as they are.
Replace ==
    /\ pc = "Repackaged"
    /\ \/ /\ fs' = [fs EXCEPT ![zip_path] = fs[new_zip_path], ![new_zip_path] = Absent]
          /\ pc' = "Swapped"
          /\ UNCHANGED <<tmpdir, exitcode, cause>>
       \/ /\ Exit("Failed", SysExit.replace_zip, "SwapError")
          /\ UNCHANGED fs
    /\ UNCHANGED <<transform, modifier, loaded, manifest, returned, json_str, orig, written, prev>>

\* line 110 and the end of the with-block: main returns.
Done ==
    /\ pc = "Swapped"
    /\ Exit("Done", NormalExit, "Completed")
    /\ UNCHANGED <<fs, transform, modifier, loaded, manifest, returned, json_str, orig, written, prev>>

\* The process is gone; its exit status is what the caller keeps of it.  The
\* build that produces the archive clears its output folder.
Rebuild ==
    /\ pc \in {"Done", "Failed"}
    /\ prev' = [cause |-> cause, exitcode |-> exitcode]
    /\ StartRun("Idle", [p \in FsPaths |-> Absent],
                [transform |-> "builtin", modifier |-> "none"])

\* lines 113-114: the script is run again on what the build has produced.
RunAgain ==
    /\ pc = "Idle"
    /\ \E f \in StartFs, c \in CommandLines : StartRun("Start", f, c)
    /\ UNCHANGED prev

Next ==
    \/ ZipNotFound
    \/ MakeTempDir
    \/ Extract
    \/ BadZipFile
    \/ ExtractRaises
    \/ LoadManifest
    \/ Transform
    \/ Serialize
    \/ WriteManifest
    \/ Rezip
    \/ Replace
    \/ Done
    \/ Rebuild
    \/ RunAgain

Spec == Init /\ [][Next]_vars

\* ------------------------------------------- modify_manifest taken alone
\* The built-in transform is called on a manifest of Docs.
InitT ==
    /\ pc = "Call"
    /\ manifest \in Docs
    /\ loaded = manifest
    /\ transform = "builtin"
    /\ modifier = "none"
    /\ returned = NoDoc
    /\ fs = [p \in FsPaths |-> Absent]
    /\ orig = fs
    /\ tmpdir = NoDir
    /\ json_str = ""
    /\ exitcode = Running
    /\ cause = "none"
    /\ written = {}
    /\ prev = NoRun

\* lines 40-47: one call of modify_manifest.
CallModifyManifest ==
    /\ pc = "Call"
    /\ LET r == modify_manifest(manifest)
       IN  \/ /\ r.raised
              /\ pc' = "Raised"
              /\ UNCHANGED <<manifest, returned>>
           \/ /\ ~r.raised
              /\ manifest' = r.arg
              /\ returned' = r.ret
              /\ pc' = "Returned"
    /\ UNCHANGED <<fs, tmpdir, transform, modifier, loaded, json_str, exitcode, cause, orig,
                   written, prev>>

\* lines 40-47: modify_manifest is called on what the call before returned.
CallAgain ==
    /\ pc = "Returned"
    /\ LET r == modify_manifest(returned)
       IN  /\ ~r.raised
           /\ loaded' = returned
           /\ manifest' = r.arg
           /\ returned' = r.ret
           /\ pc' = "ReturnedAgain"
    /\ UNCHANGED <<fs, tmpdir, transform, modifier, json_str, exitcode, cause, orig, written, prev>>

NextT ==
    \/ CallModifyManifest
    \/ CallAgain

SpecT == InitT /\ [][NextT]_vars

\* ------------------------------------------------------------------ claims
Kept(files) == SelectSeq(files, LAMBDA f : ~InProjectsToRemove(f))
Ended == pc \in {"Done", "Failed"}

\* C1: after one call of modify_manifest no entry of `files` has a projectID
\* of PROJECTS_TO_REMOVE, wherever the matching entries stand, adjacent ones
\* included.
C1_NoDenylistedEntryLeft ==
    pc = "Returned" =>
        \A i \in 1..Len(manifest.files) : ~InProjectsToRemove(manifest.files[i])

\* C2: after modify_manifest the entries whose projectID is not in
\* PROJECTS_TO_REMOVE (those without a projectID among them) are exactly those
\* of the original `files`, with the same field values and in the same order.
C2_KeptEntriesUntouched ==
    pc = "Returned" => Kept(manifest.files) = Kept(loaded.files)

\* C2's case: entries were removed before and after entries that stay, one of
\* which has no projectID.
C2_Witness ==
    /\ pc = "Returned"
    /\ Len(loaded.files) = 3
    /\ InProjectsToRemove(loaded.files[1])
    /\ "projectID" \notin DOMAIN loaded.files[2]
    /\ InProjectsToRemove(loaded.files[3])
    /\ Len(manifest.files) = 1

\* C11: calling modify_manifest on the output of modify_manifest removes
\* nothing further: the second call returns the document it was given.
C11_SecondCallChangesNothing ==
    pc = "ReturnedAgain" => manifest = loaded

\* C13: modify_manifest leaves every top-level field other than `files` as it
\* was, and adds and removes no field.
C13_OtherFieldsUntouched ==
    pc = "Returned" =>
        /\ DOMAIN manifest = DOMAIN loaded
        /\ \A k \in DOMAIN loaded \ {"files"} : manifest[k] = loaded[k]

\* C13's case: the call removed entries from a document with another field.
C13_Witness ==
    /\ pc = "Returned"
    /\ "name" \in DOMAIN loaded
    /\ Len(manifest.files) < Len(loaded.files)

Denylisted(files) == {p \in 1..Len(files) : InProjectsToRemove(files[p])}
NoTwoAdjacent(files) == \A p \in Denylisted(files) : p + 1 \notin Denylisted(files)

PlacesLeftAgree ==
    pc = "Returned" =>
        manifest.files =
            [j \in 1..Len(PlacesLeft(loaded.files)) |->
                loaded.files[PlacesLeft(loaded.files)[j]]]

\* C12: the archive rezip_directory builds has exactly one entry per file of
\* the temporary folder, the rewritten manifest.json among them, named by the
\* file's POSIX path relative to the folder and holding its content;
\* extracting it gives the files of the folder back.
C12_NewZipIsTheWorkingTree ==
    pc = "Repackaged" =>
        LET zip == fs[new_zip_path]
        IN  /\ zip.kind = "zip"
            /\ DOMAIN zip.entries = {AsPosix(p) : p \in DOMAIN tmpdir.files}
            /\ \A p \in DOMAIN tmpdir.files : zip.entries[AsPosix(p)] = tmpdir.files[p]
            /\ ManifestName \in DOMAIN zip.entries
            /\ zip.entries[ManifestName] = json_str \o "\n"
            /\ extractall(zip.entries) = tmpdir.files

\* C12's case: a folder with the rewritten manifest and a file three folders
\* deep has been zipped.
C12_Witness ==
    /\ pc = "Repackaged"
    /\ DOMAIN tmpdir.files = {ManifestPath, OtherPath}
    /\ tmpdir.files[ManifestPath] # orig[zip_path].entries[ManifestName]
    /\ fs[new_zip_path].entries[OtherName] = OtherBytes

\* C14: when --modifier names a module, main's document after the transform
\* step is what that module's modify_manifest makes of the loaded document,
\* and the call yields what that function returns; the built-in transform is
\* not applied.
C14_ModifierSupersedesBuiltin ==
    (modifier # "none" /\ pc \in {"Transformed", "Serialized", "Written", "Repackaged",
                                   "Swapped", "Done"}) =>
        LET r == CallTransform(modifier, loaded)
        IN  /\ ~r.raised
            /\ manifest = r.arg
            /\ returned = r.ret

\* The steps of main in the order of the source; a run is at one of them
\* until it ends.
PipelineOrder ==
    <<"Start", "Opened", "Extracted", "Loaded", "Transformed", "Serialized", "Written",
      "Repackaged", "Swapped", "Done">>
InRun == pc \in Range(PipelineOrder) \ {"Done"}
StepAfter(p) == PipelineOrder[(CHOOSE i \in 1..Len(PipelineOrder) : PipelineOrder[i] = p) + 1]

\* C15: a run moves from each step to the very next one or to Failed, so
\* every step is attempted at most once and in the order of the pipeline; the
\* new archive is written only when manifest.json holds the serialized
\* document, the swap is attempted only when new_zip_path holds the zip of the
\* temporary folder, and Done follows only the successful swap.
C15_StepsOnceInOrder ==
    [][/\ InRun => pc' \in {StepAfter(pc), "Failed"}
       /\ (InRun /\ new_zip_path \in written' \ written) =>
              /\ pc = "Written"
              /\ ManifestPath \in DOMAIN tmpdir.files
              /\ tmpdir.files[ManifestPath] = json_str \o "\n"
       /\ (InRun /\ (fs'[zip_path] # fs[zip_path] \/ cause' = "SwapError")) =>
              /\ pc = "Repackaged"
              /\ fs[new_zip_path] = rezip_directory(tmpdir)
       /\ pc' = "Done" =>
              /\ pc = "Swapped"
              /\ fs[zip_path] = rezip_directory(Dir(extractall(fs[zip_path].entries)))
              /\ fs[zip_path].entries[ManifestName] = json_str \o "\n"
              /\ written = {TmpDirName, ManifestName, new_zip_path}]_vars

\* C15's case: a run that changed the archive went through every step.
C15_Witness ==
    /\ pc = "Done"
    /\ written = {TmpDirName, ManifestName, new_zip_path}
    /\ fs[zip_path].entries[ManifestName] # orig[zip_path].entries[ManifestName]

\* What a step finds wrong in the state it starts from.
ErrorAhead ==
    \/ pc = "Start" /\ fs[zip_path].kind = "absent"
    \/ pc = "Opened" /\ fs[zip_path].kind # "zip"
    \/ pc = "Extracted" /\ (\/ ManifestPath \notin DOMAIN tmpdir.files
                            \/ ~JsonLoad(tmpdir.files[ManifestPath]).ok)
    \/ pc = "Loaded" /\ CallTransform(transform, manifest).raised
    \/ pc = "Transformed" /\ ~Serializable(manifest)

\* C16: a step that meets an error ends the run in Failed with a status other
\* than 0, at that very step; after Failed nothing of the run is executed;
\* Done, where the completion message is printed, follows only steps that met
\* no error.
C16_FailedAtOnceAndForGood ==
    [][/\ ErrorAhead => pc' = "Failed"
       /\ (cause = "none" /\ cause' \notin {"none", "Completed"}) =>
              pc' = "Failed" /\ exitcode' \notin {Running, NormalExit}
       /\ pc' = "Failed" => cause' \notin {"none", "Completed"}
       /\ pc = "Failed" => pc' = "Idle"
       /\ pc' = "Done" => cause = "none" /\ exitcode' = NormalExit]_vars

\* C16's case: json.dumps met a value it cannot serialize and the run ended
\* there.
C16_Witness ==
    /\ pc = "Failed"
    /\ cause = "SerializationError"
    /\ ~Serializable(manifest)
    /\ json_str = ""
    /\ written = {TmpDirName}

\* C17: what is serialized, and what manifest.json is rewritten with, is the
\* document the transform returned, also when the transform returns a new
\* document and leaves its argument alone.
C17_SerializedIsTheReturnedDocument ==
    (returned # NoDoc /\ Serializable(returned)) =>
        /\ pc \in {"Serialized", "Written", "Repackaged", "Swapped", "Done"} =>
               json_str = Dumps(returned)
        /\ pc = "Written" => tmpdir.files[ManifestPath] = ManifestText(returned)

\* C19: when no file was at new_zip_path at the start, a file is there at the
\* end of the run only if the run failed building the new archive (status 11)
\* or swapping it in (status 12).
C19_NewFileOnlyAfterLateFailure ==
    (Ended /\ orig[new_zip_path].kind = "absent" /\ fs[new_zip_path].kind # "absent") =>
        exitcode \in {SysExit.create_zip, SysExit.replace_zip}

\* C19's case: os.replace raised and the new archive stays beside the
\* original.
C19_Witness ==
    /\ pc = "Failed"
    /\ exitcode = SysExit.replace_zip
    /\ orig[new_zip_path].kind = "absent"
    /\ fs[new_zip_path].kind = "zip"

\* C3: the file at zip_path changes only in the step from Repackaged to
\* Swapped: until then, and in every run that ends in Failed, it is what it was
\* when the run started; the run writes a new archive to new_zip_path only,
\* never to zip_path.
C3_OriginalUntouchedUnlessSwapped ==
    /\ pc \notin {"Swapped", "Done"} => fs[zip_path] = orig[zip_path]
    /\ zip_path \notin written

\* C3's case: the run failed while the new archive was being built and left a
\* part of it at new_zip_path.
C3_Witness ==
    /\ pc = "Failed"
    /\ cause = "ArchiveBuildError"
    /\ fs[new_zip_path] = Partial
    /\ fs[zip_path].kind = "zip"

\* C4: whenever a run that created the temporary folder has ended (Done, any
\* sys.exit, an exception nothing catches) the folder is gone.
C4_TempDirRemoved ==
    (Ended /\ TmpDirName \in written) => tmpdir = NoDir

\* C4's case: the transform raised after the archive had been extracted.
C4_Witness ==
    /\ pc = "Failed"
    /\ cause = "Uncaught"
    /\ loaded # NoDoc
    /\ TmpDirName \in written
    /\ exitcode = UncaughtExit

\* The seven failure conditions the exit status tells apart; a missing and an
\* invalid manifest.json are both "unreadable manifest JSON".
FailureOf ==
    [ArchiveNotFound |-> "archive not found",
     CorruptArchive |-> "corrupt archive",
     MissingManifest |-> "unreadable manifest JSON",
     InvalidManifest |-> "unreadable manifest JSON",
     SerializationError |-> "non-serializable result",
     ManifestWriteError |-> "manifest write failure",
     ArchiveBuildError |-> "archive rebuild failure",
     SwapError |-> "final swap failure"]

\* C5: each of the seven failure conditions ends the run with a non-zero exit
\* status, and two runs that failed on different conditions of the seven have
\* different exit statuses.
C5_SevenDistinctStatuses ==
    (pc = "Failed" /\ cause \in DOMAIN FailureOf) =>
        /\ exitcode # NormalExit
        /\ exitcode # Running
        /\ (prev.cause \in DOMAIN FailureOf /\ FailureOf[prev.cause] # FailureOf[cause])
               => exitcode # prev.exitcode

\* C5's case: a run that failed in the swap after a run that failed building
\* the archive.
C5_Witness ==
    /\ pc = "Failed"
    /\ cause = "SwapError"
    /\ prev.cause = "ArchiveBuildError"

ManifestStepCauses ==
    {"MissingManifest", "InvalidManifest", "SerializationError", "ManifestWriteError"}

\* C6 as stated: two runs that failed on different sub-failures of the manifest
\* step (MissingManifest, InvalidManifest, SerializationError, write error)
\* have different exit statuses.
C6_SubFailuresDistinct ==
    (/\ pc = "Failed"
     /\ cause \in ManifestStepCauses
     /\ prev.cause \in ManifestStepCauses
     /\ prev.cause # cause) => exitcode # prev.exitcode

\* C6 amended: MissingManifest and InvalidManifest end the run with the same
\* exit status, which differs from the status of SerializationError and from
\* that of the manifest write error, and these two differ from each other.
C6_SubFailuresDistinctButReadErrors ==
    (/\ pc = "Failed"
     /\ cause \in ManifestStepCauses
     /\ prev.cause \in ManifestStepCauses) =>
        (exitcode = prev.exitcode <=> FailureOf[cause] = FailureOf[prev.cause])

\* C6's case: a run without manifest.json after a run whose manifest.json was
\* no JSON.
C6_Witness ==
    /\ pc = "Failed"
    /\ cause = "MissingManifest"
    /\ prev.cause = "InvalidManifest"
    /\ exitcode = prev.exitcode

\* C7: when a run is Done, zip_path holds the archive built from the extracted
\* tree with manifest.json rewritten, new_zip_path does not exist, and no file
\* was written at bak_path.
C7_DoneHoldsNewArchive ==
    pc = "Done" =>
        /\ fs[zip_path] =
              ZipOf(WriteFile(orig[zip_path].entries, ManifestName, ManifestText(manifest)))
        /\ fs[new_zip_path] = Absent
        /\ bak_path \notin written
        /\ fs[bak_path] = Absent

\* C7's case: a run is Done that changed the archive and found a stale file at
\* new_zip_path.
C7_Witness ==
    /\ pc = "Done"
    /\ orig[new_zip_path] = Garbage
    /\ fs[zip_path] # orig[zip_path]
    /\ transform = "builtin"
    /\ Len(manifest.files) < Len(loaded.files)

\* C8: when the transform yields a document holding a value that is not
\* JSON-serializable, the run ends with exit status 8, neither manifest.json
\* nor new_zip_path is written and the archive is untouched; also when the
\* transform returns a new document.
C8_UnserializableResultFails ==
    (Ended /\ returned # NoDoc /\ ~Serializable(returned)) =>
        /\ exitcode = 8
        /\ cause = "SerializationError"
        /\ ManifestName \notin written
        /\ new_zip_path \notin written
        /\ fs = orig

\* C9: when there is no file at zip_path at the start of the run, the run ends
\* with exit status 1 (archive not found) and writes nothing: no temporary
\* folder, no file at new_zip_path, no file at zip_path.
C9_MissingArchiveWritesNothing ==
    (pc # "Idle" /\ orig[zip_path] = Absent) =>
        /\ written = {}
        /\ tmpdir = NoDir
        /\ fs = orig
        /\ pc \in {"Start", "Failed"}
        /\ pc = "Failed" => (exitcode = 1 /\ cause = "ArchiveNotFound")

\* C9's case: the run on a missing archive has ended.
C9_Witness ==
    /\ pc = "Failed"
    /\ orig[zip_path] = Absent
    /\ cause = "ArchiveNotFound"

\* C10: when the file at zip_path is no valid archive, the run ends with exit
\* status 3 (corrupt archive); the manifest is never read, transformed or
\* written, no file is written at new_zip_path and the files are as they were.
C10_CorruptArchiveUntouched ==
    orig[zip_path] = Garbage =>
        /\ loaded = NoDoc /\ manifest = NoDoc /\ returned = NoDoc /\ json_str = ""
        /\ ManifestName \notin written
        /\ new_zip_path \notin written
        /\ fs = orig
        /\ pc \in {"Start", "Opened", "Failed"}
        /\ pc = "Failed" => (exitcode = 3 /\ cause = "CorruptArchive")

\* C10's case: the run on a file that is no archive has ended.
C10_Witness ==
    /\ pc = "Failed"
    /\ orig[zip_path] = Garbage
    /\ cause = "CorruptArchive"
    /\ TmpDirName \in written

====
